---- MODULE Spec2Model ----
(***************************************************************************)
(* Model of the Email Sending API (src/app.py): the Flask routes "/" and   *)
(* "/send-email", the validation chain of send_email, the SMTP session of  *)
(* send_email_smtp and the mapping of its outcome to an HTTP response.     *)
(*                                                                         *)
(* Strings the code inspects character by character (strip, "@" in s) are  *)
(* sequences of one-character strings.  Messages the code inspects by      *)
(* substring ("Authentication" in message) are sequences of words.         *)
(***************************************************************************)
EXTENDS Naturals, Sequences, FiniteSets

VARIABLES
    GMAIL_EMAIL,         \* app.py:15, read once at import
    GMAIL_APP_PASSWORD,  \* app.py:16, read once at import
    pc,                  \* position of the worker in the request it serves
    request,             \* the request being served
    response,            \* the response of the request being served
    receiver_email,      \* app.py:126, local of send_email
    subject,             \* app.py:127
    body_text,           \* app.py:128
    smtp,                \* the SMTP session of the current send_email_smtp call
    relay_calls,         \* calls of send_email_smtp made for the current request
    result,              \* (success, message, email_id) returned by send_email_smtp
    uuid_draws,          \* number of uuid.uuid4() calls made by the process
    issued,              \* the email_id values of the 200 responses sent so far
    last_sent,           \* what the latest 200 response was sent for
    resent               \* a 200 response was sent for the input of the one before it

vars == <<GMAIL_EMAIL, GMAIL_APP_PASSWORD, pc, request, response, receiver_email,
          subject, body_text, smtp, relay_calls, result, uuid_draws, issued, last_sent,
          resent>>

-----------------------------------------------------------------------------
(* Bounds of the model *)

MaxPad == 1

MaxSends == 2

-----------------------------------------------------------------------------
(* Strings and JSON values *)

\* The strings sent: each core with up to MaxPad blanks before and after it.
Blanks(n) == [i \in 1..n |-> " "]

Padded(cores) == {Blanks(i) \o c \o Blanks(j) : c \in cores, i \in 0..MaxPad, j \in 0..MaxPad}

EmailCores == {<<>>, <<"a">>, <<"@">>, <<".">>, <<"a", "@">>, <<"a", ".">>, <<"@", ".">>,
               <<"a", "@", "a", ".", "a">>}

TextCores == {<<>>, <<"a">>}

\* str.strip(): leading and trailing whitespace removed
RECURSIVE lstrip(_)
lstrip(s) == IF s # <<>> /\ Head(s) = " " THEN lstrip(Tail(s)) ELSE s

RECURSIVE rstrip(_)
rstrip(s) == IF s # <<>> /\ s[Len(s)] = " " THEN rstrip(SubSeq(s, 1, Len(s) - 1)) ELSE s

strip(s) == rstrip(lstrip(s))

\* c in s, for a one-character c
Contains(s, c) == \E i \in 1..Len(s) : s[i] = c

\* A JSON value: t its type, v its text.  Absent is what dict.get returns a
\* None for: the key is not in the object.
Str(s) == [t |-> "str", v |-> s]

Null == [t |-> "null", v |-> <<>>]

Absent == [t |-> "absent", v |-> <<>>]

Number(digits) == [t |-> "number", v |-> digits]

Bool(word) == [t |-> "bool", v |-> word]

Array(items) == [t |-> "array", v |-> items]

\* Python truthiness of a parsed JSON scalar or array
Truthy(x) ==
    CASE x.t = "str"    -> x.v # <<>>
      [] x.t = "number" -> x.v # <<"0">>
      [] x.t = "bool"   -> x.v = <<"t">>
      [] x.t = "array"  -> x.v # <<>>
      [] OTHER          -> FALSE

required_fields == <<"receiver_email", "subject", "body_text">>

RequiredSet == {required_fields[i] : i \in 1..Len(required_fields)}

NonStrings == {Absent, Null, Number(<<"5">>)}

EmailValues == {Str(s) : s \in Padded(EmailCores)} \cup NonStrings

TextValues == {Str(s) : s \in Padded(TextCores)} \cup NonStrings

\* A request body.  t = "object": fields gives the value under each required
\* key (Absent when the key is missing) and extra says whether the object has
\* keys other than the required ones.  t = "malformed": not JSON at all.
NoFields == [f \in RequiredSet |-> Absent]

Scalar(x) == [t |-> x.t, v |-> x.v, fields |-> NoFields, extra |-> FALSE]

Object(fs, ex) == [t |-> "object", v |-> <<>>, fields |-> fs, extra |-> ex]

Malformed == [t |-> "malformed", v |-> <<>>, fields |-> NoFields, extra |-> FALSE]

ObjectBodies ==
    {Object([receiver_email |-> e, subject |-> s, body_text |-> b], FALSE) :
        e \in EmailValues, s \in TextValues, b \in TextValues}
    \cup {Object(NoFields, TRUE)}

ScalarBodies ==
    {Scalar(x) : x \in {Null, Number(<<"0">>), Number(<<"5">>), Bool(<<"f">>), Bool(<<"t">>),
                        Str(<<>>), Str(<<"a">>), Array(<<>>), Array(<<"a">>)}}

Bodies == ObjectBodies \cup ScalarBodies \cup {Malformed}

Request(m, p, ct, b) == [method |-> m, path |-> p, content_type |-> ct, body |-> b]

\* The requests the model sends.  A body is enumerated only where the code
\* can read it: POST /send-email with a JSON content type; under the second
\* JSON content type only the bodies that are no object are sent.
Requests ==
    {Request(m, p, "none", Malformed) : m \in {"GET", "POST"}, p \in {"/", "/send-email", "/missing"}}
    \cup {Request("POST", "/send-email", "text/plain", Object(NoFields, TRUE))}
    \cup {Request("POST", "/send-email", "application/json", b) : b \in Bodies}
    \cup {Request("POST", "/send-email", "application/ld+json", b) :
            b \in ScalarBodies \cup {Malformed}}

NoRequest == Request("none", "none", "none", Malformed)

-----------------------------------------------------------------------------
(* Responses *)

Response(st, ks, err, msg) ==
    [status |-> st, keys |-> ks, error |-> err, message |-> msg,
     missing_fields |-> <<>>, email_id |-> 0, email_config_valid |-> FALSE,
     running |-> FALSE]

NoResponse == Response(0, {}, "", <<>>)

NoResult == [success |-> FALSE, message |-> <<>>, email_id |-> 0]

\* The SMTP session of a call: the sockets it holds open, the calls made on it
\* in order, the call that raised and the class of what it raised.
NoSession == [open |-> 0, attempts |-> <<>>, failed |-> "none", raised |-> "none"]

-----------------------------------------------------------------------------
(* send_email_smtp: the SMTP session and its except clauses *)

\* The words of the messages the code builds and of the texts str(e) the SMTP
\* library and server supply.  "x in message" for a needle without spaces is
\* decided word by word.
ErrTexts == {<<"timeout">>, <<"Authentication", "Required">>,
             <<"authentication", "unsupported">>, <<"Recipient", "unknown">>}

\* str.lower() on the words of the vocabulary
Lower(w) ==
    CASE w = "Authentication" -> "authentication"
      [] w = "Required"       -> "required"
      [] w = "Recipient"      -> "recipient"
      [] w = "SMTP"           -> "smtp"
      [] w = "Check"          -> "check"
      [] w = "Gmail"          -> "gmail"
      [] w = "Invalid"        -> "invalid"
      [] w = "Unexpected"     -> "unexpected"
      [] OTHER                -> w

lower(message) == [i \in 1..Len(message) |-> Lower(message[i])]

\* needle in message
In(needle, message) == \E i \in 1..Len(message) : message[i] = needle

\* The exception classes of smtplib the session can raise, each with its
\* base classes (smtplib's class hierarchy), OSError standing for whatever is
\* not an SMTPException.
Ancestors(exc) ==
    CASE exc = "SMTPAuthenticationError" ->
             {"SMTPAuthenticationError", "SMTPResponseException", "SMTPException", "Exception"}
      [] exc = "SMTPRecipientsRefused"   -> {"SMTPRecipientsRefused", "SMTPException", "Exception"}
      [] exc = "SMTPServerDisconnected"  -> {"SMTPServerDisconnected", "SMTPException", "Exception"}
      [] exc = "SMTPConnectError"        ->
             {"SMTPConnectError", "SMTPResponseException", "SMTPException", "Exception"}
      [] exc = "SMTPNotSupportedError"   -> {"SMTPNotSupportedError", "SMTPException", "Exception"}
      [] exc = "SMTPSenderRefused"       ->
             {"SMTPSenderRefused", "SMTPResponseException", "SMTPException", "Exception"}
      [] exc = "SMTPDataError"           ->
             {"SMTPDataError", "SMTPResponseException", "SMTPException", "Exception"}
      [] exc = "SMTPResponseException"   -> {"SMTPResponseException", "SMTPException", "Exception"}
      [] OTHER                           -> {exc, "Exception"}

\* What each call of the session can raise
Raises(stage) ==
    CASE stage = "connect"  -> {"OSError", "SMTPConnectError", "SMTPServerDisconnected"}
      [] stage = "starttls" -> {"SMTPNotSupportedError", "SMTPServerDisconnected"}
      [] stage = "login"    -> {"SMTPAuthenticationError", "SMTPNotSupportedError",
                                "SMTPServerDisconnected"}
      [] stage = "sendmail" -> {"SMTPRecipientsRefused", "SMTPSenderRefused", "SMTPDataError",
                                "SMTPServerDisconnected"}
      [] OTHER              -> {"SMTPResponseException"}

\* The except clauses of send_email_smtp, in order: the first clause whose
\* class the exception is an instance of builds the message.
ExceptClauses ==
    << [class |-> "SMTPAuthenticationError",
        prefix |-> <<"SMTP", "Authentication", "failed.", "Check", "your", "Gmail", "credentials:">>],
       [class |-> "SMTPRecipientsRefused",
        prefix |-> <<"Invalid", "recipient", "email", "address:">>],
       [class |-> "SMTPServerDisconnected",
        prefix |-> <<"SMTP", "server", "connection", "lost:">>],
       [class |-> "SMTPException",
        prefix |-> <<"SMTP", "error", "occurred:">>],
       [class |-> "Exception",
        prefix |-> <<"Unexpected", "error:">>] >>

Caught(exc) ==
    LET k == CHOOSE i \in 1..Len(ExceptClauses) :
                 /\ ExceptClauses[i].class \in Ancestors(exc)
                 /\ \A j \in 1..(i - 1) : ExceptClauses[j].class \notin Ancestors(exc)
    IN  ExceptClauses[k]

\* return False, f"<prefix> {str(e)}", None
Failure(exc, text) == [success |-> FALSE, message |-> Caught(exc).prefix \o text, email_id |-> 0]

\* A send_email_smtp that derives the identifier from the message it sent
NewEmailId_FromContent(to, subj, text, draws) == Len(to) + Len(subj) + Len(text)

\* email_id = str(uuid.uuid4()): the next identifier of the generator, whatever
\* the message holds.  0 stands for None.
NewEmailId(to, subj, text, draws) == draws + 1

\* A session used without the with statement: nothing closes the connection
WithExit_Leak(open) == open

\* SMTP.__exit__: the connections left open when the with block is left
WithExit(open) == 0

\* A call of the session raises exc: the with block is left, the matching
\* except clause returns.
Raise(stage, exc, text) ==
    /\ smtp' = [open |-> WithExit(smtp.open), attempts |-> Append(smtp.attempts, stage),
                failed |-> stage, raised |-> exc]
    /\ result' = Failure(exc, text)
    /\ pc' = "relay_returned"

\* A call of the session succeeds and the next one is due.
Proceed(stage, next) ==
    /\ smtp' = [smtp EXCEPT !.attempts = Append(@, stage)]
    /\ pc' = next
    /\ UNCHANGED result

\* smtplib.SMTP(SMTP_SERVER, SMTP_PORT): a failed constructor leaves no socket
SmtpConnect ==
    /\ pc = "smtp_connect"
    /\ \/ /\ smtp' = [smtp EXCEPT !.open = @ + 1, !.attempts = Append(@, "connect")]
          /\ pc' = "smtp_starttls"
          /\ UNCHANGED result
       \/ \E exc \in Raises("connect"), text \in ErrTexts :
              /\ smtp' = [smtp EXCEPT !.attempts = Append(@, "connect"), !.failed = "connect",
                                       !.raised = exc]
              /\ result' = Failure(exc, text)
              /\ pc' = "relay_returned"
    /\ UNCHANGED <<GMAIL_EMAIL, GMAIL_APP_PASSWORD, request, response, receiver_email,
                   subject, body_text, relay_calls, uuid_draws, issued, last_sent, resent>>

SmtpStartTLS ==
    /\ pc = "smtp_starttls"
    /\ \/ Proceed("starttls", "smtp_login")
       \/ \E exc \in Raises("starttls"), text \in ErrTexts : Raise("starttls", exc, text)
    /\ UNCHANGED <<GMAIL_EMAIL, GMAIL_APP_PASSWORD, request, response, receiver_email,
                   subject, body_text, relay_calls, uuid_draws, issued, last_sent, resent>>

SmtpLogin ==
    /\ pc = "smtp_login"
    /\ \/ Proceed("login", "smtp_sendmail")
       \/ \E exc \in Raises("login"), text \in ErrTexts : Raise("login", exc, text)
    /\ UNCHANGED <<GMAIL_EMAIL, GMAIL_APP_PASSWORD, request, response, receiver_email,
                   subject, body_text, relay_calls, uuid_draws, issued, last_sent, resent>>

\* server.sendmail, then the uuid4 draw of line 51 and the return of line 52,
\* whose value is held while __exit__ runs
SmtpSendmail ==
    /\ pc = "smtp_sendmail"
    /\ \/ /\ smtp' = [smtp EXCEPT !.attempts = Append(@, "sendmail")]
          /\ result' = [success |-> TRUE, message |-> <<"Email", "sent", "successfully">>,
                        email_id |-> NewEmailId(receiver_email, subject, body_text, uuid_draws)]
          /\ uuid_draws' = uuid_draws + 1
          /\ pc' = "smtp_exit"
       \/ /\ \E exc \in Raises("sendmail"), text \in ErrTexts : Raise("sendmail", exc, text)
          /\ UNCHANGED uuid_draws
    /\ UNCHANGED <<GMAIL_EMAIL, GMAIL_APP_PASSWORD, request, response, receiver_email,
                   subject, body_text, relay_calls, issued, last_sent, resent>>

\* Leaving the with block after the return statement: QUIT, then close.  A
\* QUIT the server answers with another code than 221 raises.
SmtpExit ==
    /\ pc = "smtp_exit"
    /\ \/ /\ smtp' = [smtp EXCEPT !.open = WithExit(@)]
          /\ pc' = "relay_returned"
          /\ UNCHANGED result
       \/ \E exc \in Raises("quit"), text \in ErrTexts :
              /\ smtp' = [smtp EXCEPT !.open = WithExit(@), !.failed = "quit", !.raised = exc]
              /\ result' = Failure(exc, text)
              /\ pc' = "relay_returned"
    /\ UNCHANGED <<GMAIL_EMAIL, GMAIL_APP_PASSWORD, request, response, receiver_email,
                   subject, body_text, relay_calls, uuid_draws, issued, last_sent, resent>>

-----------------------------------------------------------------------------
(* The routes *)

\* A validate_email_config that rejects only when both settings are missing
validate_email_config_BothMissing ==
    IF GMAIL_EMAIL = "" /\ GMAIL_APP_PASSWORD = ""
    THEN [valid |-> FALSE, msg |-> <<"Email", "configuration", "missing.">>]
    ELSE [valid |-> TRUE, msg |-> <<"OK">>]

\* validate_email_config()
validate_email_config ==
    IF GMAIL_EMAIL = "" \/ GMAIL_APP_PASSWORD = ""
    THEN [valid |-> FALSE, msg |-> <<"Email", "configuration", "missing.">>]
    ELSE [valid |-> TRUE, msg |-> <<"OK">>]

\* Flask's url map: the methods each rule allows
Routes == [path \in {"/", "/send-email"} |-> IF path = "/" THEN {"GET"} ELSE {"POST"}]

\* request.is_json: the mimetype is application/json or application/*+json
is_json(content_type) == content_type \in {"application/json", "application/ld+json"}

\* bool(data) for the value request.get_json() returned
DataTruthy(body) ==
    IF body.t = "object"
    THEN body.extra \/ \E f \in RequiredSet : body.fields[f] # Absent
    ELSE Truthy(body)

\* data.get(field).strip() raises AttributeError: the value is truthy and no str
FieldRaises(x) == Truthy(x) /\ x.t # "str"

\* not data.get(field) or not data.get(field).strip()
FieldMissing(x) == ~Truthy(x) \/ strip(x.v) = <<>>

\* the missing_fields list the loop of lines 114-116 builds
missing_of(fields) == SelectSeq(required_fields, LAMBDA f : FieldMissing(fields[f]))

\* the except clause of send_email, lines 168-176
InternalServerError ==
    Response(500, {"error", "message"}, "Internal server error",
             <<"An", "unexpected", "error", "occurred", "while", "processing", "your", "request">>)

Respond(r) ==
    /\ response' = r
    /\ pc' = "done"

Receive ==
    /\ pc = "idle"
    /\ uuid_draws < MaxSends
    /\ \E r \in Requests : request' = r
    /\ pc' = "dispatch"
    /\ UNCHANGED <<GMAIL_EMAIL, GMAIL_APP_PASSWORD, response, receiver_email, subject,
                   body_text, smtp, relay_calls, result, uuid_draws, issued, last_sent, resent>>

\* GET /
home ==
    /\ pc = "dispatch"
    /\ request.path = "/"
    /\ request.method \in Routes[request.path]
    /\ Respond([Response(200, {"service", "version", "status", "email_config_valid", "timestamp"},
                         "", <<>>)
                EXCEPT !.running = TRUE, !.email_config_valid = validate_email_config.valid])
    /\ UNCHANGED <<GMAIL_EMAIL, GMAIL_APP_PASSWORD, request, receiver_email, subject,
                   body_text, smtp, relay_calls, result, uuid_draws, issued, last_sent, resent>>

\* errorhandler(404)
not_found ==
    /\ pc = "dispatch"
    /\ request.path \notin DOMAIN Routes
    /\ Respond(Response(404, {"error", "message"}, "Endpoint not found",
                        <<"The", "requested", "endpoint", "does", "not", "exist">>))
    /\ UNCHANGED <<GMAIL_EMAIL, GMAIL_APP_PASSWORD, request, receiver_email, subject,
                   body_text, smtp, relay_calls, result, uuid_draws, issued, last_sent, resent>>

\* errorhandler(405)
method_not_allowed ==
    /\ pc = "dispatch"
    /\ request.path \in DOMAIN Routes
    /\ request.method \notin Routes[request.path]
    /\ Respond(Response(405, {"error", "message"}, "Method not allowed",
                        <<"The", "HTTP", "method", "is", "not", "allowed", "for", "this", "endpoint">>))
    /\ UNCHANGED <<GMAIL_EMAIL, GMAIL_APP_PASSWORD, request, receiver_email, subject,
                   body_text, smtp, relay_calls, result, uuid_draws, issued, last_sent, resent>>

-----------------------------------------------------------------------------
(* send_email: POST /send-email *)

\* lines 91-96
ValidateConfig ==
    /\ pc = "dispatch"
    /\ request.path = "/send-email"
    /\ request.method \in Routes[request.path]
    /\ IF ~validate_email_config.valid
       THEN Respond(Response(500, {"error", "message"}, "Server configuration error",
                             validate_email_config.msg))
       ELSE pc' = "is_json" /\ UNCHANGED response
    /\ UNCHANGED <<GMAIL_EMAIL, GMAIL_APP_PASSWORD, request, receiver_email, subject,
                   body_text, smtp, relay_calls, result, uuid_draws, issued, last_sent, resent>>

\* lines 99-102
CheckIsJson ==
    /\ pc = "is_json"
    /\ IF ~is_json(request.content_type)
       THEN Respond(Response(400, {"error"}, "Content-Type must be application/json", <<>>))
       ELSE pc' = "get_json" /\ UNCHANGED response
    /\ UNCHANGED <<GMAIL_EMAIL, GMAIL_APP_PASSWORD, request, receiver_email, subject,
                   body_text, smtp, relay_calls, result, uuid_draws, issued, last_sent, resent>>

\* lines 104-108: request.get_json() raises BadRequest on a body that is no
\* JSON, and BadRequest is an Exception, caught by line 168
GetJson ==
    /\ pc = "get_json"
    /\ IF request.body.t = "malformed"
       THEN Respond(InternalServerError)
       ELSE IF ~DataTruthy(request.body)
            THEN Respond(Response(400, {"error"}, "Request body is required", <<>>))
            ELSE pc' = "required_fields" /\ UNCHANGED response
    /\ UNCHANGED <<GMAIL_EMAIL, GMAIL_APP_PASSWORD, request, receiver_email, subject,
                   body_text, smtp, relay_calls, result, uuid_draws, issued, last_sent, resent>>

\* lines 111-128: data.get raises AttributeError when data is no dict, and
\* .strip() when a value is truthy and no str; both are caught by line 168
ValidateFields ==
    /\ pc = "required_fields"
    /\ LET data == request.body
           missing_fields == missing_of(data.fields)
       IN  IF data.t # "object" \/ \E f \in RequiredSet : FieldRaises(data.fields[f])
           THEN /\ Respond(InternalServerError)
                /\ UNCHANGED <<receiver_email, subject, body_text>>
           ELSE IF missing_fields # <<>>
                THEN /\ Respond([Response(400, {"error", "missing_fields", "required_fields"},
                                          "Missing required fields", <<>>)
                                 EXCEPT !.missing_fields = missing_fields])
                     /\ UNCHANGED <<receiver_email, subject, body_text>>
                ELSE /\ receiver_email' = strip(data.fields["receiver_email"].v)
                     /\ subject' = strip(data.fields["subject"].v)
                     /\ body_text' = strip(data.fields["body_text"].v)
                     /\ pc' = "email_format"
                     /\ UNCHANGED response
    /\ UNCHANGED <<GMAIL_EMAIL, GMAIL_APP_PASSWORD, request, smtp, relay_calls, result,
                   uuid_draws, issued, last_sent, resent>>

\* lines 131-138: the email check, then the call of send_email_smtp
ValidateEmail ==
    /\ pc = "email_format"
    /\ IF ~Contains(receiver_email, "@") \/ ~Contains(receiver_email, ".")
       THEN /\ Respond(Response(400, {"error", "message"}, "Invalid email format",
                                <<"Please", "provide", "a", "valid", "email", "address">>))
            /\ UNCHANGED <<smtp, relay_calls>>
       ELSE /\ pc' = "smtp_connect"
            /\ relay_calls' = relay_calls + 1
            /\ smtp' = NoSession
            /\ UNCHANGED response
    /\ UNCHANGED <<GMAIL_EMAIL, GMAIL_APP_PASSWORD, request, receiver_email, subject,
                   body_text, result, uuid_draws, issued, last_sent, resent>>

\* lines 140-166: the status is chosen from the words of the message
ErrorStatus(message) ==
    IF In("Authentication", message)
    THEN Response(401, {"error", "message"}, "Authentication failed", message)
    ELSE IF In("recipient", lower(message))
         THEN Response(400, {"error", "message"}, "Invalid recipient", message)
         ELSE Response(502, {"error", "message"}, "Email sending failed", message)

MapResult ==
    /\ pc = "relay_returned"
    /\ IF result.success
       THEN /\ Respond([Response(200, {"status", "message", "email_id", "sent_to", "sent_from",
                                       "subject", "timestamp"}, "", result.message)
                        EXCEPT !.email_id = result.email_id])
            /\ issued' = Append(issued, result.email_id)
            /\ last_sent' = <<receiver_email, subject, body_text>>
            /\ resent' = (resent \/ last_sent = <<receiver_email, subject, body_text>>)
       ELSE /\ Respond(ErrorStatus(result.message))
            /\ UNCHANGED <<issued, last_sent, resent>>
    /\ UNCHANGED <<GMAIL_EMAIL, GMAIL_APP_PASSWORD, request, receiver_email, subject,
                   body_text, smtp, relay_calls, result, uuid_draws>>

\* The response is sent; the worker takes the next request with fresh locals.
Finish ==
    /\ pc = "done"
    /\ pc' = "idle"
    /\ request' = NoRequest
    /\ response' = NoResponse
    /\ receiver_email' = <<>>
    /\ subject' = <<>>
    /\ body_text' = <<>>
    /\ smtp' = NoSession
    /\ relay_calls' = 0
    /\ result' = NoResult
    /\ UNCHANGED <<GMAIL_EMAIL, GMAIL_APP_PASSWORD, uuid_draws, issued, last_sent, resent>>

-----------------------------------------------------------------------------
(* The process *)

Init ==
    /\ GMAIL_EMAIL \in {"", "sender@gmail.com"}
    /\ GMAIL_APP_PASSWORD \in {"", "app-password"}
    /\ pc = "idle"
    /\ request = NoRequest
    /\ response = NoResponse
    /\ receiver_email = <<>>
    /\ subject = <<>>
    /\ body_text = <<>>
    /\ smtp = NoSession
    /\ relay_calls = 0
    /\ result = NoResult
    /\ uuid_draws = 0
    /\ issued = <<>>
    /\ last_sent = <<>>
    /\ resent = FALSE

Next ==
    \/ Receive
    \/ home
    \/ not_found
    \/ method_not_allowed
    \/ ValidateConfig
    \/ CheckIsJson
    \/ GetJson
    \/ ValidateFields
    \/ ValidateEmail
    \/ SmtpConnect
    \/ SmtpStartTLS
    \/ SmtpLogin
    \/ SmtpSendmail
    \/ SmtpExit
    \/ MapResult
    \/ Finish

Spec == Init /\ [][Next]_vars

-----------------------------------------------------------------------------
(* What the claims speak of *)

Served == pc = "done"

IsSendEmail == request.method = "POST" /\ request.path = "/send-email"

IsHome == request.method = "GET" /\ request.path = "/"

CredsPresent == GMAIL_EMAIL # "" /\ GMAIL_APP_PASSWORD # ""

JsonContentType == request.content_type \in {"application/json", "application/ld+json"}

\* credentials present and a JSON Content-Type on POST /send-email
JsonSendEmail == IsSendEmail /\ CredsPresent /\ JsonContentType

NonEmptyObject(b) == b.t = "object" /\ (b.extra \/ \E f \in RequiredSet : b.fields[f] # Absent)

\* absent (a null counted as absent) or empty after trimming whitespace
AbsentOrBlank(x) == x \in {Absent, Null} \/ (x.t = "str" /\ strip(x.v) = <<>>)

AbsentOrBlankFields(b) == SelectSeq(required_fields, LAMBDA f : AbsentOrBlank(b.fields[f]))

EmailShape(x) == x.t = "str" /\ Contains(strip(x.v), "@") /\ Contains(strip(x.v), ".")

ValidRequest ==
    /\ JsonSendEmail
    /\ request.body.t = "object"
    /\ \A f \in RequiredSet : request.body.fields[f].t = "str" /\ strip(request.body.fields[f].v) # <<>>
    /\ EmailShape(request.body.fields["receiver_email"])

Answer(st, err) == response.status = st /\ response.error = err

RelayReached == relay_calls > 0

-----------------------------------------------------------------------------
(* The claims *)

\* C1: on POST /send-email the checks run in the order credentials, Content-Type,
\* non-empty JSON object, required fields, email shape; the response is the one
\* of the first failing check, and send_email_smtp is called only when all five
\* passed.
C1_FirstFailingCheck ==
    (Served /\ IsSendEmail) =>
        LET b == request.body
        IN  IF ~CredsPresent THEN Answer(500, "Server configuration error") /\ ~RelayReached
            ELSE IF ~JsonContentType
                 THEN Answer(400, "Content-Type must be application/json") /\ ~RelayReached
            ELSE IF ~NonEmptyObject(b)
                 THEN Answer(400, "Request body is required") /\ ~RelayReached
            ELSE IF AbsentOrBlankFields(b) # <<>>
                 THEN Answer(400, "Missing required fields") /\ ~RelayReached
            ELSE IF ~EmailShape(b.fields["receiver_email"])
                 THEN Answer(400, "Invalid email format") /\ ~RelayReached
            ELSE RelayReached

\* C2: with credentials, a JSON Content-Type and a non-empty object in which a
\* required field is absent or blank, the response is 400 "Missing required
\* fields" and missing_fields lists exactly those fields, whatever the other
\* fields hold.
C2_MissingFieldsExact ==
    (Served /\ JsonSendEmail /\ NonEmptyObject(request.body)
            /\ AbsentOrBlankFields(request.body) # <<>>) =>
        /\ Answer(400, "Missing required fields")
        /\ response.missing_fields = AbsentOrBlankFields(request.body)

\* C3: with credentials and a JSON Content-Type, a body that is no well-formed
\* JSON is answered 400, never 500.
C3_MalformedJsonIs400 ==
    (Served /\ JsonSendEmail /\ request.body.t = "malformed") => response.status = 400

\* C4: with credentials and a JSON Content-Type, a body that parses but is no
\* non-empty object (null, {}, array, string, number, boolean) is answered 400
\* "Request body is required".
C4_NonObjectBodyRequired ==
    (Served /\ JsonSendEmail /\ request.body.t # "malformed" /\ ~NonEmptyObject(request.body)) =>
        Answer(400, "Request body is required")

\* C5: when the relay fails with SMTPAuthenticationError the response is 401
\* "Authentication failed", and when it fails with SMTPRecipientsRefused the
\* response is 400 "Invalid recipient", whatever text the failure carries.
C5_AuthAndRecipientStatus ==
    (Served /\ RelayReached) =>
        /\ smtp.raised = "SMTPAuthenticationError" => Answer(401, "Authentication failed")
        /\ smtp.raised = "SMTPRecipientsRefused" => Answer(400, "Invalid recipient")

\* C6: when the relay fails in any other category the response is 502 "Email
\* sending failed", whatever text the failure carries.
C6_OtherFailuresAre502 ==
    (Served /\ RelayReached
            /\ smtp.raised \notin {"none", "SMTPAuthenticationError", "SMTPRecipientsRefused"}) =>
        Answer(502, "Email sending failed")

\* C7: a valid request whose relay succeeds is answered 200 with a non-empty
\* email_id; the email_id values of all 200 responses are pairwise distinct,
\* repeated inputs included; no other response carries an email_id.
C7_EmailIdFreshPerSend ==
    /\ (Served /\ ValidRequest /\ RelayReached /\ result.success) =>
           /\ response.status = 200
           /\ "email_id" \in response.keys
           /\ response.email_id # 0
           /\ issued # <<>> /\ issued[Len(issued)] = response.email_id
    /\ \A i, j \in 1..Len(issued) : i # j => issued[i] # issued[j]
    /\ (Served /\ response.status # 200) =>
           "email_id" \notin response.keys /\ response.email_id = 0

\* the same valid input answered 200 twice in a row
C7_Witness ==
    /\ Served
    /\ ValidRequest
    /\ response.status = 200
    /\ resent
    /\ Len(issued) >= 2

\* C8: every non-200 response of POST /send-email holds both an "error" and a
\* "message" field.
C8_ErrorEnvelope ==
    (Served /\ IsSendEmail /\ response.status # 200) => {"error", "message"} \subseteq response.keys

\* C9: GET / answers 200 with status "running" whatever the configuration,
\* email_config_valid is true exactly when sender address and app password are
\* both non-empty, and the relay is not called.
C9_HomeAlwaysRunning ==
    (Served /\ IsHome) =>
        /\ response.status = 200
        /\ response.running
        /\ "email_config_valid" \in response.keys
        /\ response.email_config_valid = CredsPresent
        /\ ~RelayReached
        /\ smtp = NoSession

\* GET / served with the sender address set and the app password missing
C9_Witness ==
    /\ Served
    /\ IsHome
    /\ GMAIL_EMAIL # ""
    /\ GMAIL_APP_PASSWORD = ""
    /\ response.status = 200

SessionCalls == <<"connect", "starttls", "login", "sendmail">>

InSession == pc \in {"smtp_connect", "smtp_starttls", "smtp_login", "smtp_sendmail", "smtp_exit"}

\* C10: a request calls send_email_smtp at most once; a call opens at most one
\* connection, makes each SMTP call at most once and in order, makes no call
\* after one has failed, returns a failure with success = False and no
\* identifier, and holds no open connection once it has returned.
C10_SingleAttempt ==
    /\ relay_calls <= 1
    /\ smtp.open <= 1
    /\ smtp.attempts = SubSeq(SessionCalls, 1, Len(smtp.attempts))
    /\ smtp.failed # "none" =>
           /\ ~InSession
           /\ smtp.failed \in {"quit", smtp.attempts[Len(smtp.attempts)]}
           /\ ~result.success
           /\ result.email_id = 0
    /\ ~InSession => smtp.open = 0

\* send_email_smtp has returned after sendmail raised on an open connection
C10_Witness ==
    /\ pc = "relay_returned"
    /\ smtp.failed = "sendmail"
    /\ smtp.attempts = SessionCalls
    /\ smtp.open = 0
    /\ ~result.success

====
